---- MODULE Spec2Model ----
(***************************************************************************)
(* Model of md2html.py: the Markdown-to-HTML batch converter.              *)
(*                                                                         *)
(* Text is modelled as a sequence of characters, each character a string.  *)
(* ASCII characters, the control characters among them, stand for          *)
(* themselves.  The characters outside ASCII are written as their code     *)
(* point ("U+00E9"); the texts of the model have these: the white space    *)
(* outside ASCII (NonAsciiWhitespace), the letters U+00DF and U+00E9, the  *)
(* combining acute accent U+0301 and the trade mark sign U+2122.           *)
(***************************************************************************)
EXTENDS Integers, Sequences, FiniteSets, TLC

VARIABLES
    title, slug, reslug,                    \* slugify_for_filename: argument, result, result of a second call
    raw_date, DATEUTIL_AVAILABLE, dateutil_result, strftime_pads,
    iso_date, warning,                      \* parse_date_to_iso: argument, environment, result, printed warning
    content, content_body,                  \* frontmatter stripping: post text, text handed to the renderer
    base_dir, base_name, candidate,         \* unique_output_path: existing names, argument, result
    listing, pos, fs, log,                  \* convert_files: os.listdir result, loop position, html_posts, calls of print
    pc                                      \* which call has run

vars == <<title, slug, reslug, raw_date, DATEUTIL_AVAILABLE, dateutil_result, strftime_pads,
          iso_date, warning, content, content_body, base_dir, base_name, candidate,
          listing, pos, fs, log, pc>>

slugVars == <<title, slug, reslug>>
dateVars == <<raw_date, DATEUTIL_AVAILABLE, dateutil_result, strftime_pads, iso_date, warning>>
stripVars == <<content, content_body>>
pathVars == <<base_dir, base_name, candidate>>
pipeVars == <<listing, pos, fs, log>>

\* Python's None, where a string is expected: a one-element sequence that no
\* text equals (every character of a text is a single character or "U+....").
None == <<"None">>

(***************************************************************************)
(* Characters and strings                                                  *)
(***************************************************************************)
LowerLetters == <<"a","b","c","d","e","f","g","h","i","j","k","l","m",
                  "n","o","p","q","r","s","t","u","v","w","x","y","z">>
UpperLetters == <<"A","B","C","D","E","F","G","H","I","J","K","L","M",
                  "N","O","P","Q","R","S","T","U","V","W","X","Y","Z">>
DigitChars == <<"0","1","2","3","4","5","6","7","8","9">>

Range(s) == {s[i] : i \in DOMAIN s}

\* The least and the greatest element of a set of numbers.
Min(S) == CHOOSE x \in S : \A y \in S : x <= y
Max(S) == CHOOSE x \in S : \A y \in S : x >= y

\* [A-Za-z]
AsciiLetters == Range(LowerLetters) \cup Range(UpperLetters)
IsAsciiLetter(c) == c \in AsciiLetters
\* \d
IsDigit(c) == c \in Range(DigitChars)
\* White space outside ASCII: next line, no-break space, ogham space mark, en
\* quad to hair space, line and paragraph separator, narrow no-break space,
\* medium mathematical space, ideographic space.
NonAsciiWhitespace ==
    {"U+0085", "U+00A0", "U+1680", "U+2000", "U+2001", "U+2002", "U+2003", "U+2004",
     "U+2005", "U+2006", "U+2007", "U+2008", "U+2009", "U+200A", "U+2028", "U+2029",
     "U+202F", "U+205F", "U+3000"}
\* \s on str patterns, and what str.strip() with no argument strips: the
\* characters of str.isspace().  In ASCII these are the space, \t, \n, \r, \f,
\* the vertical tab (0x0B) and the separators 0x1C to 0x1F.
Whitespace ==
    {" ", "\t", "\n", "\r", "\f", "", "", "", "", ""} \cup NonAsciiWhitespace
IsSpace(c) == c \in Whitespace
\* Letters outside ASCII that str.isalnum() accepts: U+00DF (sharp s), U+00E9 (e acute).
NonAsciiLetters == {"U+00DF", "U+00E9"}
\* \w on str patterns: Unicode alphanumerics and the underscore.
IsWord(c) == IsAsciiLetter(c) \/ IsDigit(c) \/ c = "_" \/ c \in NonAsciiLetters

DigitValue(c) == (CHOOSE i \in DOMAIN DigitChars : DigitChars[i] = c) - 1

\* str.lower() on one character.
LowerChar(c) ==
    IF c \in Range(UpperLetters)
    THEN LowerLetters[CHOOSE i \in DOMAIN UpperLetters : UpperLetters[i] = c]
    ELSE c

\* str.lower()
Lower(s) == [i \in DOMAIN s |-> LowerChar(s[i])]

\* s[:n]
Take(s, n) == SubSeq(s, 1, IF Len(s) < n THEN Len(s) ELSE n)
\* s[n:] (n counted from 0, as in Python)
Drop(s, n) == SubSeq(s, n + 1, Len(s))

RECURSIVE LStrip(_, _)
\* str.lstrip(chars)
LStrip(s, chars) ==
    IF s # <<>> /\ Head(s) \in chars THEN LStrip(Tail(s), chars) ELSE s

RECURSIVE RStrip(_, _)
\* str.rstrip(chars)
RStrip(s, chars) ==
    IF s # <<>> /\ s[Len(s)] \in chars THEN RStrip(SubSeq(s, 1, Len(s) - 1), chars) ELSE s

\* str.strip(chars)
Strip(s, chars) == RStrip(LStrip(s, chars), chars)

RECURSIVE Rep(_, _)
\* c * n
Rep(c, n) == IF n = 0 THEN <<>> ELSE <<c>> \o Rep(c, n - 1)

(***************************************************************************)
(* slugify_for_filename                                                    *)
(***************************************************************************)
SAFE_TITLE_MAX == 50

UntitledPost == <<"u","n","t","i","t","l","e","d","-","p","o","s","t">>

\* The white space that NFKD replaces by the space: all of the white space
\* outside ASCII but the next line, the ogham space mark and the two separators.
CompatibilitySpaces == NonAsciiWhitespace \ {"U+0085", "U+1680", "U+2028", "U+2029"}

\* unicodedata.normalize("NFKD", c) for one character: e acute decomposes into
\* e and the combining acute accent U+0301, the trade mark sign U+2122 into
\* TM, a compatibility space into the space; every other character of the
\* model has no decomposition.
NFKDChar(c) ==
    IF c = "U+00E9" THEN <<"e", "U+0301">>
    ELSE IF c = "U+2122" THEN <<"T", "M">>
    ELSE IF c \in CompatibilitySpaces THEN <<" ">>
    ELSE <<c>>

RECURSIVE NFKD(_)
NFKD(s) == IF s = <<>> THEN <<>> ELSE NFKDChar(Head(s)) \o NFKD(Tail(s))

RECURSIVE RemovePunctuation(_)
\* re.sub(r"[^\w\s-]", "", value)
RemovePunctuation(s) ==
    IF s = <<>> THEN <<>>
    ELSE IF IsWord(Head(s)) \/ IsSpace(Head(s)) \/ Head(s) = "-"
         THEN <<Head(s)>> \o RemovePunctuation(Tail(s))
         ELSE RemovePunctuation(Tail(s))

IsHyphenOrSpace(c) == c = "-" \/ IsSpace(c)

RECURSIVE CollapseHyphens(_)
\* re.sub(r"[-\s]+", "-", value)
CollapseHyphens(s) ==
    IF s = <<>> THEN <<>>
    ELSE IF IsHyphenOrSpace(Head(s))
         THEN <<"-">> \o CollapseHyphens(LStrip(s, {"-"} \cup Whitespace))
         ELSE <<Head(s)>> \o CollapseHyphens(Tail(s))

\* value[:SAFE_TITLE_MAX].rstrip("-")
TruncateNoRStrip(value) == Take(value, SAFE_TITLE_MAX)
Truncate(value) == RStrip(Take(value, SAFE_TITLE_MAX), {"-"})

\* value.strip("-").lower()
StripLowerNoLower(value) == Strip(value, {"-"})
StripLower(value) == Lower(Strip(value, {"-"}))

slugify_for_filename(value) ==
    LET v1 == NFKD(value)
        v2 == RemovePunctuation(v1)
        v3 == CollapseHyphens(v2)
        v4 == StripLower(v3)
        v5 == Truncate(v4)
    IN  IF v5 = <<>> THEN UntitledPost ELSE v5

(***************************************************************************)
(* Calendar dates, strftime and strptime                                   *)
(***************************************************************************)
\* datetime.now(): the day of the run.
Today == [year |-> 2026, month |-> 10, day |-> 29]

IsLeap(y) == (y % 4 = 0 /\ y % 100 # 0) \/ y % 400 = 0

DaysInMonth(y, m) ==
    IF m = 2 THEN (IF IsLeap(y) THEN 29 ELSE 28)
    ELSE IF m \in {4, 6, 9, 11} THEN 30 ELSE 31

\* datetime(year, month, day) raises ValueError outside these ranges (MINYEAR is 1).
ValidDate(y, m, d) ==
    /\ y \in 1..9999
    /\ m \in 1..12
    /\ d \in 1..DaysInMonth(y, m)

RECURSIVE IntToStr(_)
\* str(n) for n >= 0
IntToStr(n) ==
    IF n < 10 THEN <<DigitChars[n + 1]>>
    ELSE IntToStr(n \div 10) \o <<DigitChars[(n % 10) + 1]>>

\* Zero-padded decimal of the given width.
ZeroPad(n, width) ==
    LET digits == IntToStr(n)
    IN  IF Len(digits) >= width THEN digits ELSE Rep("0", width - Len(digits)) \o digits

RECURSIVE StrToInt(_)
\* int(s) for a string of digits
StrToInt(s) ==
    IF s = <<>> THEN 0 ELSE 10 * StrToInt(SubSeq(s, 1, Len(s) - 1)) + DigitValue(s[Len(s)])

\* dt.strftime("%Y-%m-%d").  The C library decides whether %Y is zero-padded
\* for years below 1000 (glibc does not pad); pads is that property of the platform.
strftime(dt, pads) ==
    (IF pads THEN ZeroPad(dt.year, 4) ELSE IntToStr(dt.year))
        \o <<"-">> \o ZeroPad(dt.month, 2) \o <<"-">> \o ZeroPad(dt.day, 2)

MonthAbbr == << <<"j","a","n">>, <<"f","e","b">>, <<"m","a","r">>, <<"a","p","r">>,
                <<"m","a","y">>, <<"j","u","n">>, <<"j","u","l">>, <<"a","u","g">>,
                <<"s","e","p">>, <<"o","c","t">>, <<"n","o","v">>, <<"d","e","c">> >>

MonthFull == << <<"j","a","n","u","a","r","y">>, <<"f","e","b","r","u","a","r","y">>,
                <<"m","a","r","c","h">>, <<"a","p","r","i","l">>, <<"m","a","y">>,
                <<"j","u","n","e">>, <<"j","u","l","y">>, <<"a","u","g","u","s","t">>,
                <<"s","e","p","t","e","m","b","e","r">>, <<"o","c","t","o","b","e","r">>,
                <<"n","o","v","e","m","b","e","r">>, <<"d","e","c","e","m","b","e","r">> >>

AllDigits(s) == \A i \in DOMAIN s : IsDigit(s[i])

\* Does s start with prefix p, compared case-insensitively?
StartsWithI(s, p) == Len(s) >= Len(p) /\ Lower(Take(s, Len(p))) = p

\* Length of the run of whitespace at the start of s.
RECURSIVE SpaceRun(_)
SpaceRun(s) == IF s # <<>> /\ IsSpace(Head(s)) THEN 1 + SpaceRun(Tail(s)) ELSE 0

RECURSIVE CountDown(_)
\* <<n, n-1, ..., 1>>
CountDown(n) == IF n = 0 THEN <<>> ELSE <<n>> \o CountDown(n - 1)

\* The two-digit number at the start of s, or -1.
TwoDigits(s) == IF Len(s) >= 2 /\ IsDigit(s[1]) /\ IsDigit(s[2]) THEN StrToInt(Take(s, 2)) ELSE -1
\* The one-digit number at the start of s, or -1.
OneDigit(s) == IF Len(s) >= 1 /\ IsDigit(s[1]) THEN DigitValue(s[1]) ELSE -1

\* The lengths the two-then-one digit alternation of a directive can match at the
\* start of s, in the order the regular expression tries them.
NumLens(s, two, one) ==
    (IF TwoDigits(s) \in two THEN <<2>> ELSE <<>>) \o (IF OneDigit(s) \in one THEN <<1>> ELSE <<>>)

\* The directives whose regular expression is a two-digit or a one-digit number.
NumericDirectives == {"%m", "%d", "%H", "%I", "%M", "%S"}

\* The numbers the two-digit alternative of a numeric directive accepts.
TwoDigitRange(tok) ==
    CASE tok \in {"%m", "%I"} -> 1..12
      [] tok = "%d" -> 1..31
      [] tok = "%H" -> 0..23
      [] tok = "%M" -> 0..59
      [] tok = "%S" -> 0..61

\* The numbers the one-digit alternative of a numeric directive accepts.
OneDigitRange(tok) == IF tok \in {"%m", "%d", "%I"} THEN 1..9 ELSE 0..9

\* The regular expression _strptime builds for one element of a format, as
\* the lengths it can match at the start of s, in the order it tries them.
DirectiveLens(tok, s) ==
    CASE tok = "%Y" -> IF Len(s) >= 4 /\ AllDigits(Take(s, 4)) THEN <<4>> ELSE <<>>
      [] tok \in NumericDirectives ->
            NumLens(s, TwoDigitRange(tok), OneDigitRange(tok))
                \o (IF tok = "%d" /\ Len(s) >= 2 /\ s[1] = " " /\ OneDigit(Tail(s)) \in 1..9
                    THEN <<2>> ELSE <<>>)
      [] tok \in {"%p", "%b", "%B"} ->
            LET names == CASE tok = "%p" -> {<<"a","m">>, <<"p","m">>}
                           [] tok = "%b" -> Range(MonthAbbr)
                           [] tok = "%B" -> Range(MonthFull)
                Longest(found) == IF found = {} THEN <<>> ELSE <<Max({Len(n) : n \in found})>>
            IN  Longest({n \in names : StartsWithI(s, n)})
      [] tok = " "  -> CountDown(SpaceRun(s))
      [] OTHER      -> IF s # <<>> /\ Head(s) = tok THEN <<1>> ELSE <<>>

RECURSIVE MatchFormat(_, _)
RECURSIVE TryLens(_, _, _)
\* format_regex.match(data_string): the first way, in backtracking order, to
\* match the format at the start of s; lens are the lengths matched by
\* the elements of the format.
MatchFormat(s, fmt) ==
    IF fmt = <<>> THEN [ok |-> TRUE, lens |-> <<>>]
    ELSE TryLens(s, fmt, DirectiveLens(Head(fmt), s))

TryLens(s, fmt, lens) ==
    IF lens = <<>> THEN [ok |-> FALSE, lens |-> <<>>]
    ELSE LET r == MatchFormat(Drop(s, Head(lens)), Tail(fmt))
         IN  IF r.ok THEN [ok |-> TRUE, lens |-> <<Head(lens)>> \o r.lens]
             ELSE TryLens(s, fmt, Tail(lens))

RECURSIVE SumSeq(_)
SumSeq(q) == IF q = <<>> THEN 0 ELSE Head(q) + SumSeq(Tail(q))

\* The text matched by the k-th element of the format.
Field(s, lens, k) == SubSeq(s, SumSeq(SubSeq(lens, 1, k - 1)) + 1, SumSeq(SubSeq(lens, 1, k)))

\* The text matched by directive tok (every format of the program uses a directive once).
FieldOf(s, fmt, lens, tok) == Field(s, lens, CHOOSE k \in DOMAIN fmt : fmt[k] = tok)

\* int() of a matched number; int(" 7") is 7.
FieldInt(t) == StrToInt(LStrip(t, {" "}))

Failed == [ok |-> FALSE, year |-> 0, month |-> 0, day |-> 0]

\* datetime.strptime(s, fmt), reduced to the date: ok is FALSE where it raises ValueError.
strptime(s, fmt) ==
    LET Month(lens) ==
            IF "%m" \in Range(fmt) THEN FieldInt(FieldOf(s, fmt, lens, "%m"))
            ELSE IF "%b" \in Range(fmt)
            THEN CHOOSE i \in 1..12 : MonthAbbr[i] = Lower(FieldOf(s, fmt, lens, "%b"))
            ELSE CHOOSE i \in 1..12 : MonthFull[i] = Lower(FieldOf(s, fmt, lens, "%B"))
        \* %S matches 60 and 61, which datetime() then rejects
        Seconds(lens) == IF "%S" \in Range(fmt) THEN FieldInt(FieldOf(s, fmt, lens, "%S")) ELSE 0
        Build(y, m, d, sec) ==
            IF ValidDate(y, m, d) /\ sec <= 59 THEN [ok |-> TRUE, year |-> y, month |-> m, day |-> d]
            ELSE Failed
        ToDate(r) ==
            IF ~r.ok \/ SumSeq(r.lens) # Len(s) THEN Failed
            ELSE Build(FieldInt(FieldOf(s, fmt, r.lens, "%Y")), Month(r.lens),
                       FieldInt(FieldOf(s, fmt, r.lens, "%d")), Seconds(r.lens))
    IN  ToDate(MatchFormat(s, fmt))

(***************************************************************************)
(* parse_date_to_iso                                                       *)
(***************************************************************************)
iso_try_formats == <<
    <<"%Y", "-", "%m", "-", "%d">>,
    <<"%Y", "-", "%m", "-", "%d", " ", "%H", ":", "%M", ":", "%S">>,
    <<"%Y", "-", "%m", "-", "%d", " ", "%I", ":", "%M", " ", "%p">> >>

try_formats == <<
    <<"%b", " ", "%d", ",", " ", "%Y", " ", "%I", ":", "%M", " ", "%p">>,
    <<"%b", " ", "%d", ",", " ", "%Y", " ", "%H", ":", "%M">>,
    <<"%b", " ", "%d", ",", " ", "%Y">>,
    <<"%B", " ", "%d", ",", " ", "%Y", " ", "%I", ":", "%M", " ", "%p">>,
    <<"%B", " ", "%d", ",", " ", "%Y">> >>

\* The format of the search for an embedded date.
embedded_format == <<"%b", " ", "%d", ",", " ", "%Y">>

RECURSIVE FirstParse(_, _)
\* for fmt in formats: try strptime(s, fmt), the first success wins.
FirstParse(s, formats) ==
    LET OrNext(r) == IF r.ok THEN r ELSE FirstParse(s, Tail(formats))
    IN  IF formats = <<>> THEN Failed ELSE OrNext(strptime(s, Head(formats)))

\* $ without re.MULTILINE matches at the end of the text and before a newline
\* that ends the text: what of t a pattern that ends in $ has to match.
BeforeDollar(t) == IF t # <<>> /\ t[Len(t)] = "\n" THEN SubSeq(t, 1, Len(t) - 1) ELSE t

\* An optional "(" at the start of a suffix, skipped.
SkipOpen(t) == IF t # <<>> /\ Head(t) = "(" THEN Tail(t) ELSE t

\* An optional ")" at the end of a suffix, dropped.
SkipClose(t) == IF t # <<>> /\ t[Len(t)] = ")" THEN SubSeq(t, 1, Len(t) - 1) ELSE t

\* \(?GMT[+-]?\d{1,4}\)?$ with re.IGNORECASE, matched from the start of t.
IsGmtSuffix(t) ==
    LET Offset(d) == Len(d) \in 1..4 /\ AllDigits(d)
        SkipSign(u) == IF u # <<>> /\ Head(u) \in {"+", "-"} THEN Tail(u) ELSE u
        Named(u) == StartsWithI(u, <<"g","m","t">>) /\ Offset(SkipClose(SkipSign(Drop(u, 3))))
    IN  Named(SkipOpen(BeforeDollar(t)))

\* \(?UTC\)?$ with re.IGNORECASE, matched from the start of t.
IsUtcSuffix(t) == Lower(SkipClose(SkipOpen(BeforeDollar(t)))) = <<"u","t","c">>

\* \(?[A-Za-z]{1,5}\)?$ matched from the start of t.
IsAlphaSuffix(t) ==
    LET Letters(u) == Len(u) \in 1..5 /\ \A i \in DOMAIN u : IsAsciiLetter(u[i])
    IN  Letters(SkipClose(SkipOpen(BeforeDollar(t))))

\* Does the suffix pattern of the kind, with its $, match from the start of t?
IsSuffix(kind, t) ==
    CASE kind = "GMT" -> IsGmtSuffix(t)
      [] kind = "UTC" -> IsUtcSuffix(t)
      [] kind = "alpha" -> IsAlphaSuffix(t)

\* re.sub(r"\s+<suffix>$", "", s): the text is cut at the leftmost position
\* from which whitespace and then a suffix run to the $; a newline that
\* ends the text lies after the $ and stays.
StripSuffix(s, kind) ==
    LET Cut(starts) ==
            IF starts = {} THEN s
            ELSE SubSeq(s, 1, (CHOOSE i \in starts : \A k \in starts : i <= k) - 1)
                     \o Drop(s, Len(BeforeDollar(s)))
    IN  Cut({i \in 1..Len(s) :
               \E j \in i..Len(s) :
                  /\ \A k \in i..j : IsSpace(s[k])
                  /\ IsSuffix(kind, SubSeq(s, j + 1, Len(s)))})

\* The substitutions that remove the suffixes of the given kinds, one after another.
RECURSIVE StripSuffixes(_, _)
StripSuffixes(s, kinds) ==
    IF kinds = <<>> THEN s ELSE StripSuffixes(StripSuffix(s, Head(kinds)), Tail(kinds))

\* The three substitutions that remove a time-zone suffix, and the strip() after them.
StripTimezone(raw) == Strip(StripSuffixes(raw, <<"GMT", "UTC", "alpha">>), Whitespace)

\* Length of the run of characters of the set chars at the start of s.
RunLen(s, chars) ==
    CHOOSE n \in 0..Len(s) : /\ \A k \in 1..n : s[k] \in chars
                             /\ n = Len(s) \/ s[n + 1] \notin chars

\* The length of the match of [A-Za-z]{3,}\s+\d{1,2},\s+\d{4} at the start of s, or 0.
EmbeddedLen(s) ==
    LET Year(nl, ns, nd, nt, s4) ==
            IF nl >= 3 /\ ns >= 1 /\ nd >= 1 /\ nt >= 1 /\ Len(s4) >= 4 /\ AllDigits(Take(s4, 4))
            THEN nl + ns + nd + 1 + nt + 4
            ELSE 0
        Gap(nl, ns, nd, s3, nt) == Year(nl, ns, nd, nt, Drop(s3, nt))
        Comma(nl, ns, s2, nd) == Gap(nl, ns, nd, Drop(s2, nd + 1), RunLen(Drop(s2, nd + 1), Whitespace))
        Day(nl, ns, s2) ==
            Comma(nl, ns, s2,
                  IF Len(s2) >= 3 /\ IsDigit(s2[1]) /\ IsDigit(s2[2]) /\ s2[3] = "," THEN 2
                  ELSE IF Len(s2) >= 2 /\ IsDigit(s2[1]) /\ s2[2] = "," THEN 1
                  ELSE 0)
        Spaces(nl, s1, ns) == Day(nl, ns, Drop(s1, ns))
        Name(nl) == Spaces(nl, Drop(s, nl), RunLen(Drop(s, nl), Whitespace))
    IN  Name(RunLen(s, AsciiLetters))

\* re.search(r"([A-Za-z]{3,}\s+\d{1,2},\s+\d{4})", raw): group(1) of the leftmost
\* match, or the empty string where there is none.
SearchEmbedded(raw) ==
    LET Group(lens, i) == SubSeq(raw, i, i + lens[i] - 1)
        Leftmost(lens) ==
            IF \A i \in DOMAIN lens : lens[i] = 0 THEN <<>>
            ELSE Group(lens, CHOOSE i \in DOMAIN lens :
                                lens[i] > 0 /\ \A k \in 1..(i - 1) : lens[k] = 0)
    IN  Leftmost([i \in 1..Len(raw) |-> EmbeddedLen(Drop(raw, i - 1))])

\* raw_date.strip().strip('"').strip("'")
StripQuotes(raw) == Strip(Strip(Strip(raw, Whitespace), {"\""}), {"'"})

\* parse_date_to_iso(raw_date), given whether dateutil was imported, what its
\* parser does with the text (du.raised, du.date), how the platform's
\* strftime pads, and whether the console takes the warning.  The result is
\* the returned string and whether the warning was printed; print is
\* outside any try, so where the console does not take the warning the call
\* raises and returns nothing.
parse_date_to_iso(rd, available, du, pads, console) ==
    LET Embedded(m) == IF m = <<>> THEN Failed ELSE strptime(m, embedded_format)
        ThenEmbedded(raw, r) == IF r.ok THEN r ELSE Embedded(SearchEmbedded(raw))
        ThenHuman(raw, r) ==
            IF r.ok THEN r ELSE ThenEmbedded(raw, FirstParse(StripTimezone(raw), try_formats))
        Parsed(raw) == ThenHuman(raw, FirstParse(raw, iso_try_formats))
        Returned(dt, warned) == [iso |-> strftime(dt, pads), warned |-> warned, raised |-> FALSE]
        Result(r) ==
            IF r.ok \/ console THEN Returned(IF r.ok THEN r ELSE Today, ~r.ok)
            ELSE [iso |-> <<>>, warned |-> FALSE, raised |-> TRUE]
    IN  IF rd = None \/ rd = <<>> THEN Returned(Today, FALSE)
        ELSE IF available /\ ~du.raised THEN Returned(du.date, FALSE)
        ELSE Result(Parsed(StripQuotes(rd)))

(***************************************************************************)
(* extract_frontmatter                                                     *)
(***************************************************************************)
\* Does text t occur in s at position i?
OccursAt(s, t, i) == i >= 1 /\ i + Len(t) - 1 <= Len(s) /\ SubSeq(s, i, i + Len(t) - 1) = t

\* ^ with re.MULTILINE: the start of the text or the position after a newline.
AtLineStart(s, i) == i = 1 \/ (i > 1 /\ i <= Len(s) + 1 /\ s[i - 1] = "\n")

\* $ with re.MULTILINE: the end of the text or the position before a newline.
AtLineEnd(s, i) == i = Len(s) + 1 \/ (i <= Len(s) /\ s[i] = "\n")

IsQuote(c) == c \in {"\"", "'"}

\* Length of the run of whitespace of s that starts at position i.
SpaceRunAt(s, i) == RunLen(Drop(s, i - 1), Whitespace)

\* The positions where a line starts with the key ("date:", "title:", "tags:").
KeyLines(s, key) == {i \in 1..Len(s) : AtLineStart(s, i) /\ OccursAt(s, key, i)}

\* The ways \s*["']?(.+?)["']?\s*$ matches from position p: w characters of
\* whitespace, q1 opening quotes, a value of n characters, q2 closing quotes.
DateMatches(s, p) ==
    {t \in [w : 0..SpaceRunAt(s, p), q1 : {0, 1}, n : 1..Len(s), q2 : {0, 1}] :
        LET a == p + t.w              \* after the whitespace
            b == a + t.q1             \* start of the value
            e == b + t.n              \* after the value
            f == e + t.q2             \* after the closing quote
        IN  /\ t.q1 = 1 => (a <= Len(s) /\ IsQuote(s[a]))
            /\ e <= Len(s) + 1
            /\ \A k \in b..(e - 1) : s[k] # "\n"
            /\ t.q2 = 1 => (e <= Len(s) /\ IsQuote(s[e]))
            /\ \E k \in 0..SpaceRunAt(s, f) : AtLineEnd(s, f + k)}

\* The match the regular expression engine finds first among the matches M
\* from position p: whitespace and quotes are greedy, the value is lazy.
DateFirstMatch(s, p, M) ==
    LET Value(w, q1, n) == SubSeq(s, p + w + q1, p + w + q1 + n - 1)
        Lazy(w, q1) == Value(w, q1, Min({t.n : t \in {u \in M : u.w = w /\ u.q1 = q1}}))
        Quoted(w) == Lazy(w, Max({t.q1 : t \in {u \in M : u.w = w}}))
    IN  Quoted(Max({t.w : t \in M}))

DateKey == <<"d","a","t","e",":">>
TitleKey == <<"t","i","t","l","e",":">>
TagsKey == <<"t","a","g","s",":">>

\* date_match.group(1).strip(), or None: re.search(r'^date:\s*["\']?(.+?)["\']?\s*$', content, re.MULTILINE)
extract_raw_date(s) ==
    LET Group(ms, i) == Strip(DateFirstMatch(s, i + Len(DateKey), ms[i]), Whitespace)
        Search(ms) ==
            IF \A i \in DOMAIN ms : ms[i] = {} THEN None
            ELSE Group(ms, Min({i \in DOMAIN ms : ms[i] # {}}))
    IN  Search([i \in KeyLines(s, DateKey) |-> DateMatches(s, i + Len(DateKey))])

\* The length of the value that ^title:\s*["'](.+?)["'] captures for the key at line i, or 0.
TitleLenAt(s, i) ==
    LET Shortest(a, ns) == IF a <= Len(s) /\ IsQuote(s[a]) /\ ns # {} THEN Min(ns) ELSE 0
        \* a is the position of the opening quote
        Value(a) == Shortest(a, {n \in 1..Len(s) : /\ a + n + 1 <= Len(s)
                                                   /\ \A k \in (a + 1)..(a + n) : s[k] # "\n"
                                                   /\ IsQuote(s[a + n + 1])})
    IN  Value(i + Len(TitleKey) + SpaceRunAt(s, i + Len(TitleKey)))

UntitledTitle == <<"U","n","t","i","t","l","e","d"," ","P","o","s","t">>

\* title_match.group(1).strip(), or "Untitled Post"
extract_title(s) ==
    LET Value(a, n) == Strip(SubSeq(s, a + 1, a + n), Whitespace)
        Group(lens, i) == Value(i + Len(TitleKey) + SpaceRunAt(s, i + Len(TitleKey)), lens[i])
        Search(lens) ==
            IF \A i \in DOMAIN lens : lens[i] = 0 THEN UntitledTitle
            ELSE Group(lens, Min({i \in DOMAIN lens : lens[i] > 0}))
    IN  Search([i \in KeyLines(s, TitleKey) |-> TitleLenAt(s, i)])

\* The length of the literal that ^tags:\s*(\[[^\]]*\]) captures for the key at line i, or 0.
TagsLenAt(s, i) ==
    LET Closed(a, closes) ==
            IF a <= Len(s) /\ s[a] = "[" /\ closes # {} THEN Min(closes) - a + 1 ELSE 0
        \* a is the position of the opening bracket
        Literal(a) == Closed(a, {k \in (a + 1)..Len(s) : s[k] = "]"})
    IN  Literal(i + Len(TagsKey) + SpaceRunAt(s, i + Len(TagsKey)))

\* tags_match.group(1).strip(), or "[]"
extract_tags(s) ==
    LET Value(a, n) == Strip(SubSeq(s, a, a + n - 1), Whitespace)
        Group(lens, i) == Value(i + Len(TagsKey) + SpaceRunAt(s, i + Len(TagsKey)), lens[i])
        Search(lens) ==
            IF \A i \in DOMAIN lens : lens[i] = 0 THEN <<"[", "]">>
            ELSE Group(lens, Min({i \in DOMAIN lens : lens[i] > 0}))
    IN  Search([i \in KeyLines(s, TagsKey) |-> TagsLenAt(s, i)])

\* extract_frontmatter(content): (iso_date, title, tags), and whether the
\* warning of parse_date_to_iso was printed; where parse_date_to_iso raises,
\* so does extract_frontmatter, and nothing is returned.
extract_frontmatter(s, available, du, pads, console) ==
    LET Tuple(d) ==
            IF d.raised
            THEN [iso_date |-> <<>>, title |-> <<>>, tags |-> <<>>, warned |-> FALSE, raised |-> TRUE]
            ELSE [iso_date |-> d.iso, title |-> extract_title(s), tags |-> extract_tags(s),
                  warned |-> d.warned, raised |-> FALSE]
    IN  Tuple(parse_date_to_iso(extract_raw_date(s), available, du, pads, console))

(***************************************************************************)
(* Frontmatter stripping in convert_files                                  *)
(***************************************************************************)
Dashes == <<"-", "-", "-">>

\* The end (exclusive) of the match of ^---[\s\S]*?---\s* that starts at
\* position i, or 0 where it does not match there.
FrontmatterEnd(s, i) ==
    LET After(j) == j + 3 + SpaceRunAt(s, j + 3)
        Lazy(closes) ==
            IF AtLineStart(s, i) /\ OccursAt(s, Dashes, i) /\ closes # {} THEN After(Min(closes))
            ELSE 0
    IN  Lazy({j \in (i + 3)..Len(s) : OccursAt(s, Dashes, j)})

RECURSIVE StripFrom(_, _)
\* re.sub replaces every match: the scan resumes after each match.
StripFrom(s, i) ==
    LET Skip(end) == IF end > 0 THEN StripFrom(s, end) ELSE <<s[i]>> \o StripFrom(s, i + 1)
    IN  IF i > Len(s) THEN <<>> ELSE Skip(FrontmatterEnd(s, i))

\* re.sub(r'^---[\s\S]*?---\s*', '', content, flags=re.MULTILINE)
strip_frontmatter(s) == StripFrom(s, 1)

(***************************************************************************)
(* unique_output_path                                                      *)
(*                                                                         *)
(* Every path is a name inside one directory, so os.path.join(base_dir, n) *)
(* is modelled by the name n and os.path.exists by membership in the set   *)
(* of names the directory holds.                                           *)
(***************************************************************************)
\* os.path.splitext(base_name): the extension starts at the last dot, unless
\* only dots precede it.
splitext(name) ==
    LET dots == {i \in DOMAIN name : name[i] = "."}
        dotIndex == Max(dots)
    IN  IF dots # {} /\ \E k \in 1..(dotIndex - 1) : name[k] # "."
        THEN [name |-> SubSeq(name, 1, dotIndex - 1), ext |-> SubSeq(name, dotIndex, Len(name))]
        ELSE [name |-> name, ext |-> <<>>]

\* f"{name}-{counter}{ext}"
new_name(base, n) == splitext(base).name \o <<"-">> \o IntToStr(n) \o splitext(base).ext

RECURSIVE probe(_, _, _)
\* The while loop: the first counter, from n upwards, whose name does not exist.
probe(existing, base, n) ==
    IF new_name(base, n) \notin existing THEN new_name(base, n)
    ELSE probe(existing, base, n + 1)

\* counter = 1
first_counter == 1

unique_output_path_unchecked(existing, base) == base
unique_output_path_skip_one(existing, base) ==
    IF base \notin existing THEN base ELSE probe(existing, base, first_counter + 1)
unique_output_path(existing, base) ==
    IF base \notin existing THEN base ELSE probe(existing, base, first_counter)

(***************************************************************************)
(* convert_files                                                           *)
(***************************************************************************)
\* filename.lower().endswith(".md")
IsMarkdownName(filename) ==
    Len(filename) >= 3 /\ Lower(SubSeq(filename, Len(filename) - 2, Len(filename))) = <<".", "m", "d">>

\* markdown.markdown(content_body, ...): the renderer is an external library;
\* its result is the body between two markers that stand for the conversion.
markdown(body) == <<"markdown.markdown(">> \o body \o <<")">>

\* "<pre>" + content_body + "</pre>"
preformatted(body) == <<"<","p","r","e",">">> \o body \o <<"<","/","p","r","e",">">>

\* The regenerated frontmatter: the f-string up to the blank line before the body.
frontmatter(meta) ==
    <<"-","-","-","\n">>
    \o <<"t","i","t","l","e",":"," ","\"">> \o meta.title \o <<"\"","\n">>
    \o <<"d","a","t","e",":"," ","\"">> \o meta.iso_date \o <<"\"","\n">>
    \o <<"t","a","g","s",":"," ">> \o meta.tags \o <<"\n">>
    \o <<"l","a","y","o","u","t",":"," ","p","o","s","t","\n">>
    \o <<"-","-","-","\n","\n">>

\* output_content
output_content(meta, html_body) == frontmatter(meta) \o html_body \o <<"\n">>

\* f"{iso_date}-{safe_title}.html"
output_filename_base(meta) ==
    meta.iso_date \o <<"-">> \o slugify_for_filename(meta.title) \o <<".","h","t","m","l">>

(***************************************************************************)
(* Variables a specification does not use keep these values.               *)
(***************************************************************************)
NoDateutil == [raised |-> TRUE, date |-> Today]

IdleSlug == title = <<>> /\ slug = <<>> /\ reslug = <<>>
IdleDate ==
    /\ raw_date = None /\ DATEUTIL_AVAILABLE = FALSE /\ dateutil_result = NoDateutil
    /\ strftime_pads = FALSE /\ iso_date = <<>> /\ warning = FALSE
IdleStrip == content = <<>> /\ content_body = <<>>
IdlePath == base_dir = {} /\ base_name = <<>> /\ candidate = <<>>
IdlePipe == listing = <<>> /\ pos = 0 /\ fs = <<>> /\ log = <<>>

\* All sequences over alphabet of length at most n.
SeqsUpTo(alphabet, n) == UNION {[1..k -> alphabet] : k \in 0..n}

(***************************************************************************)
(* SpecSlug: slugify_for_filename applied to a title, then to its result   *)
(***************************************************************************)
MaxTail == 3

\* A letter, a capital, a digit, the underscore, a hyphen, a space, a form
\* feed, a no-break space, punctuation, a letter with a decomposition, a
\* letter outside ASCII, a symbol that decomposes into letters.
TitleAlphabet ==
    {"a", "B", "7", "_", "-", " ", "\f", "U+00A0", "!", "U+00E9", "U+00DF", "U+2122"}

\* Titles are a run of letters that ends around the truncation point, then a tail.
PadLens == {0} \cup ((SAFE_TITLE_MAX - 3)..SAFE_TITLE_MAX)

TitleInputs == {Rep("a", n) \o t : n \in PadLens, t \in SeqsUpTo(TitleAlphabet, MaxTail)}

InitSlug ==
    /\ title \in TitleInputs
    /\ slug = <<>> /\ reslug = <<>>
    /\ pc = "start"
    /\ IdleDate /\ IdleStrip /\ IdlePath /\ IdlePipe

Slugify ==
    /\ pc = "start"
    /\ slug' = slugify_for_filename(title)
    /\ pc' = "slugified"
    /\ UNCHANGED <<title, reslug, dateVars, stripVars, pathVars, pipeVars>>

Reslugify ==
    /\ pc = "slugified"
    /\ reslug' = slugify_for_filename(slug)
    /\ pc' = "reslugified"
    /\ UNCHANGED <<title, slug, dateVars, stripVars, pathVars, pipeVars>>

NextSlug == Slugify \/ Reslugify

SpecSlug == InitSlug /\ [][NextSlug]_vars

\* slugify_for_filename, amended (C7): the slug has between 1 and 50 characters,
\* each a hyphen or a word character in lower case (a-z, 0-9, the underscore, or
\* a letter outside ASCII); the empty title, and any title whose NFKD form
\* has no word character, gives "untitled-post".
C7_SlugShape ==
    pc \in {"slugified", "reslugified"} =>
        /\ Len(slug) \in 1..SAFE_TITLE_MAX
        /\ \A i \in DOMAIN slug : slug[i] = "-" \/ (IsWord(slug[i]) /\ LowerChar(slug[i]) = slug[i])
        /\ \A t \in {NFKD(title)} : (\A i \in DOMAIN t : ~IsWord(t[i])) => slug = UntitledPost

\* C7 as stated: every character of the slug lies in [a-z0-9-].
C7_AsciiOnly ==
    pc \in {"slugified", "reslugified"} =>
        /\ Len(slug) \in 1..SAFE_TITLE_MAX
        /\ \A i \in DOMAIN slug : slug[i] = "-" \/ slug[i] \in Range(LowerLetters) \/ IsDigit(slug[i])
        /\ title = <<>> => slug = UntitledPost

\* A title longer than the limit was cut to 50 characters that keep an underscore.
C7_Witness ==
    /\ pc = "slugified"
    /\ Len(title) > SAFE_TITLE_MAX
    /\ Len(slug) = SAFE_TITLE_MAX
    /\ "_" \in Range(slug)

\* slugify_for_filename is idempotent (C8): slugifying a slug returns it unchanged.
C8_Idempotent == pc = "reslugified" => reslug = slug

\* The title's 50th character is a hyphen, so the truncation ends on it.
C8_Witness ==
    /\ pc = "reslugified"
    /\ title = Rep("a", SAFE_TITLE_MAX - 1) \o <<"-", "a">>
    /\ slug = Rep("a", SAFE_TITLE_MAX - 1)

(***************************************************************************)
(* SpecDate: parse_date_to_iso applied to a date string                    *)
(***************************************************************************)
\* str.capitalize() of a month name.
Capitalize(s) ==
    <<UpperLetters[CHOOSE i \in DOMAIN LowerLetters : LowerLetters[i] = s[1]]>> \o Tail(s)

Date(y, m, d) == [ok |-> TRUE, year |-> y, month |-> m, day |-> d]

\* "YYYY-MM-DD"
IsoText(dt) == ZeroPad(dt.year, 4) \o <<"-">> \o ZeroPad(dt.month, 2) \o <<"-">> \o ZeroPad(dt.day, 2)

\* "Mon DD, YYYY" and "Month DD, YYYY"
HumanText(dt, names) ==
    Capitalize(names[dt.month]) \o <<" ">> \o ZeroPad(dt.day, 2) \o <<",", " ">> \o ZeroPad(dt.year, 4)

\* Nothing, a 24-hour time, a 12-hour time.
TimeTexts == {<<>>, <<" ","1","4",":","3","0">>, <<" ","0","6",":","0","2"," ","A","M">>}

\* Nothing, an abbreviation, UTC and a GMT offset, bare and parenthesised.
ZoneTexts == {<<>>, <<" ","P","D","T">>, <<" ","(","P","D","T",")">>, <<" ","U","T","C">>,
              <<" ","G","M","T","+","0","2","0","0">>, <<" ","(","G","M","T","+","0","2","0","0",")">>}

HumanDates == {Date(2012, 10, 10), Date(2012, 5, 3)}

\* The six human-readable patterns, with and without a time-zone suffix.
HumanInputs ==
    {[text |-> HumanText(dt, names) \o tm \o tz, date |-> dt] :
        dt \in HumanDates, names \in {MonthAbbr, MonthFull}, tm \in TimeTexts, tz \in ZoneTexts}

IsoDates == {Date(2012, 10, 10), Date(2012, 2, 29), Date(999, 1, 2)}

\* What may surround a date: nothing, quotes of either kind, of both kinds
\* in either order, whitespace outside (spaces and tabs, or a form feed and
\* a line end), whitespace inside quotes.
Wrappers == {
    [left |-> <<>>, right |-> <<>>],
    [left |-> <<"\"">>, right |-> <<"\"">>],
    [left |-> <<"'">>, right |-> <<"'">>],
    [left |-> <<"\"", "'">>, right |-> <<"'", "\"">>],
    [left |-> <<"'", "\"">>, right |-> <<"\"", "'">>],
    [left |-> <<" ">>, right |-> <<" ", "\t">>],
    [left |-> <<"\f">>, right |-> <<"\r", "\n">>],
    [left |-> <<"\"", " ">>, right |-> <<" ", "\"">>] }

IsoInputs ==
    {[text |-> w.left \o IsoText(dt) \o w.right, date |-> dt] : dt \in IsoDates, w \in Wrappers}

\* Absent, empty, blank, not a date, impossible dates.
UnparseableInputs ==
    {[text |-> t, date |-> Failed] :
        t \in {None, <<>>, <<" ", " ">>,
               <<"g","a","r","b","a","g","e"," ","n","o","t"," ","a"," ","d","a","t","e">>,
               <<"2","0","1","2","-","0","2","-","3","0">>,
               <<"F","e","b"," ","3","0",","," ","2","0","1","2">>,
               <<"0","0","0","0","-","0","1","-","0","1">>}}

\* A date inside other text, found by the search for an embedded date.
EmbeddedInputs ==
    {[text |-> <<"P","o","s","t","e","d"," ">> \o HumanText(dt, MonthAbbr) \o <<" ","a","t"," ","n","o","o","n">>,
      date |-> dt] : dt \in HumanDates}

\* A date whose parts are separated by white space other than the space, and
\* a quoted date whose time-zone suffix is followed by a newline.
SeparatorInputs ==
    {[text |-> <<"O","c","t","\f","1","0",",","U+00A0","2","0","1","2","\r","P","D","T">>,
      date |-> Date(2012, 10, 10)],
     [text |-> <<"\"">> \o HumanText(Date(2012, 10, 10), MonthFull) \o <<" ","P","D","T","\n","\"">>,
      date |-> Date(2012, 10, 10)]}

DateInputs ==
    HumanInputs \cup IsoInputs \cup UnparseableInputs \cup EmbeddedInputs \cup SeparatorInputs

\* dateutil_parser.parse(text) is an external library: it raises, or it
\* returns the date the text denotes.
DateutilOutcomes(inp) ==
    {NoDateutil} \cup (IF inp.date.ok THEN {[raised |-> FALSE, date |-> inp.date]} ELSE {})

InitDate ==
    /\ \E inp \in DateInputs :
          /\ raw_date = inp.text
          /\ DATEUTIL_AVAILABLE \in BOOLEAN
          /\ dateutil_result \in (IF DATEUTIL_AVAILABLE THEN DateutilOutcomes(inp) ELSE {NoDateutil})
    /\ strftime_pads \in BOOLEAN
    /\ iso_date = <<>> /\ warning = FALSE
    /\ pc = "start"
    /\ IdleSlug /\ IdleStrip /\ IdlePath /\ IdlePipe

\* One call of parse_date_to_iso; the console takes what is printed, or not.
ParseDate ==
    /\ pc = "start"
    /\ \E console \in BOOLEAN :
       \E r \in {parse_date_to_iso(raw_date, DATEUTIL_AVAILABLE, dateutil_result,
                                   strftime_pads, console)} :
          /\ iso_date' = r.iso
          /\ warning' = r.warned
          /\ pc' = IF r.raised THEN "raised" ELSE "parsed"
    /\ UNCHANGED <<raw_date, DATEUTIL_AVAILABLE, dateutil_result, strftime_pads,
                   slugVars, stripVars, pathVars, pipeVars>>

NextDate == ParseDate

SpecDate == InitDate /\ [][NextDate]_vars

\* Is s ten characters, YYYY-MM-DD, that name a date of the calendar?
IsIsoShape(s) ==
    /\ Len(s) = 10
    /\ s[5] = "-" /\ s[8] = "-"
    /\ AllDigits(SubSeq(s, 1, 4)) /\ AllDigits(SubSeq(s, 6, 7)) /\ AllDigits(SubSeq(s, 9, 10))
    /\ ValidDate(StrToInt(SubSeq(s, 1, 4)), StrToInt(SubSeq(s, 6, 7)), StrToInt(SubSeq(s, 9, 10)))

\* parse_date_to_iso is total (C4): whatever the input and whether or not dateutil
\* is there, the call does not raise and the result is a YYYY-MM-DD date; an
\* absent or empty input gives today's date, and an input that no strategy
\* parses gives the warning and today's date.
C4_Total ==
    /\ pc # "raised"
    /\ pc = "parsed" =>
          /\ IsIsoShape(iso_date)
          /\ raw_date \in {None, <<>>} => (iso_date = IsoText(Today) /\ ~warning)
          /\ (raw_date \notin {None, <<>>} /\ \E inp \in UnparseableInputs : inp.text = raw_date)
                => (iso_date = IsoText(Today) /\ warning)

\* Every string of the six human-readable patterns, with or without a time-zone
\* suffix, gives its calendar date, with and without dateutil (C5).
C5_HumanReadable ==
    \A inp \in HumanInputs :
        (pc # "start" /\ raw_date = inp.text) =>
            (pc = "parsed" /\ iso_date = IsoText(inp.date) /\ ~warning)

\* Every valid YYYY-MM-DD date, optionally surrounded by whitespace or quotes,
\* comes back as exactly that YYYY-MM-DD string, with and without dateutil (C6).
C6_IsoIdentity ==
    \A inp \in IsoInputs :
        (pc # "start" /\ raw_date = inp.text) => (pc = "parsed" /\ iso_date = IsoText(inp.date))

(***************************************************************************)
(* SpecStrip: the frontmatter substitution applied to a post               *)
(***************************************************************************)
MaxLines == 5

\* A marker line (a horizontal rule in a body) and two lines of text.
LineTexts == {<<"-","-","-">>, <<"A">>, <<"B">>}

RECURSIVE JoinLines(_)
\* "\n".join(lines)
JoinLines(lines) ==
    IF lines = <<>> THEN <<>>
    ELSE IF Len(lines) = 1 THEN Head(lines)
    ELSE Head(lines) \o <<"\n">> \o JoinLines(Tail(lines))

\* No frontmatter, or a frontmatter block with one field.
HeaderTexts == {<<>>, <<"-","-","-","\n","t",":"," ","x","\n","-","-","-","\n">>}

\* Posts are a header and a body of up to MaxLines lines.
StripInputs == {h \o JoinLines(lines) : h \in HeaderTexts, lines \in SeqsUpTo(LineTexts, MaxLines)}

InitStrip ==
    /\ content \in StripInputs
    /\ content_body = <<>>
    /\ pc = "start"
    /\ IdleSlug /\ IdleDate /\ IdlePath /\ IdlePipe

StripFrontmatter ==
    /\ pc = "start"
    /\ content_body' = strip_frontmatter(content)
    /\ pc' = "stripped"
    /\ UNCHANGED <<content, slugVars, dateVars, pathVars, pipeVars>>

NextStrip == StripFrontmatter

SpecStrip == InitStrip /\ [][NextStrip]_vars

\* Only a leading block between --- markers is removed (C10): the text after
\* the block that opens the post, or the whole text of a post that opens
\* with no such block, reaches the renderer unchanged.
C10_OnlyLeadingBlock ==
    pc = "stripped" =>
        content_body = (IF FrontmatterEnd(content, 1) > 0
                        THEN Drop(content, FrontmatterEnd(content, 1) - 1)
                        ELSE content)

(***************************************************************************)
(* SpecPath: unique_output_path applied to a directory and a base name     *)
(***************************************************************************)
MaxProbe == 10

\* Base names with the stem and extension they split into.
BaseInputs == {
    [base |-> <<"2","0","2","0","-","0","1","-","0","1","-","p","o","s","t",".","h","t","m","l">>,
     stem |-> <<"2","0","2","0","-","0","1","-","0","1","-","p","o","s","t">>,
     ext |-> <<".","h","t","m","l">>],
    [base |-> <<"a",".","b",".","h","t","m","l">>, stem |-> <<"a",".","b">>, ext |-> <<".","h","t","m","l">>],
    [base |-> <<"n","o","t","e","s">>, stem |-> <<"n","o","t","e","s">>, ext |-> <<>>],
    [base |-> <<".","e","n","v">>, stem |-> <<".","e","n","v">>, ext |-> <<>>] }

\* stem-k.ext
Numbered(inp, k) == inp.stem \o <<"-">> \o IntToStr(k) \o inp.ext

InitPath ==
    /\ \E inp \in BaseInputs :
          /\ base_name = inp.base
          /\ base_dir \in SUBSET ({inp.base} \cup {Numbered(inp, k) : k \in 1..MaxProbe})
    /\ candidate = <<>>
    /\ pc = "start"
    /\ IdleSlug /\ IdleDate /\ IdleStrip /\ IdlePipe

Resolve ==
    /\ pc = "start"
    /\ candidate' = unique_output_path(base_dir, base_name)
    /\ pc' = "resolved"
    /\ UNCHANGED <<base_dir, base_name, slugVars, dateVars, stripVars, pipeVars>>

NextPath == Resolve

SpecPath == InitPath /\ [][NextPath]_vars

\* unique_output_path returns the base name when it is free, and otherwise
\* stem-k.ext for the smallest k >= 1 that is free (C3).
C3_SmallestFree ==
    pc = "resolved" =>
        \E inp \in BaseInputs :
            /\ inp.base = base_name
            /\ candidate \notin base_dir
            /\ base_name \notin base_dir => candidate = base_name
            /\ base_name \in base_dir =>
                  \E k \in 1..(Cardinality(base_dir) + 1) :
                      /\ candidate = Numbered(inp, k)
                      /\ \A j \in 1..(k - 1) : Numbered(inp, j) \in base_dir

\* The base name and its first two numbered names exist; the third is returned.
C3_Witness ==
    /\ pc = "resolved"
    /\ \E inp \in BaseInputs :
          /\ inp.ext # <<>>
          /\ base_name = inp.base
          /\ {inp.base, Numbered(inp, 1), Numbered(inp, 2)} \subseteq base_dir
          /\ candidate = Numbered(inp, 3)

(***************************************************************************)
(* Spec: one run of convert_files over a listing of _posts                 *)
(***************************************************************************)
MaxFiles == 2
MaxExisting == 2

HelloBody == <<"#", " ", "H", "e", "l", "l", "o">>

\* The files _posts may hold: a post dated today, a post whose date no
\* strategy parses (it gets today's date and the warning) and whose title
\* gives the same slug, and a file that is not a post.  denotes is the date
\* that the text of the date field denotes, which is what dateutil returns
\* for it.
InputFiles == {
    [filename |-> <<"a", ".", "m", "d">>,
     content |-> <<"-","-","-","\n"
                   ,"t","i","t","l","e",":"," ","\"","H","i","\"","\n"
                   ,"d","a","t","e",":"," ","\"">> \o IsoText(Today) \o <<"\"","\n"
                   ,"t","a","g","s",":"," ","[","]","\n"
                   ,"-","-","-","\n">> \o HelloBody,
     denotes |-> Date(Today.year, Today.month, Today.day)],
    [filename |-> <<"b", ".", "M", "D">>,
     content |-> <<"-","-","-","\n"
                   ,"t","i","t","l","e",":"," ","'","H","i","!","'","\n"
                   ,"d","a","t","e",":"," ","s","o","o","n","\n"
                   ,"-","-","-","\n","A">>,
     denotes |-> Failed],
    [filename |-> <<"d", ".", "t", "x", "t">>, content |-> HelloBody, denotes |-> Failed] }

\* dateutil_parser.parse on the date field of a file.
DateutilFor(f) == IF f.denotes.ok THEN [raised |-> FALSE, date |-> f.denotes] ELSE NoDateutil

\* Listings of up to n distinct files, in any order (os.listdir gives no order).
Listings(n) ==
    {l \in SeqsUpTo(InputFiles, n) : \A i, j \in DOMAIN l : i # j => l[i] # l[j]}

\* Names html_posts may hold before the run: the name the two posts
\* derive, and the first numbered name.
HiName == IsoText(Today) \o <<"-","h","i",".","h","t","m","l">>
HiName1 == IsoText(Today) \o <<"-","h","i","-","1",".","h","t","m","l">>
ExistingNames == {HiName, HiName1}

OldContent == <<"o", "l", "d">>

Init ==
    /\ listing \in Listings(MaxFiles)
    /\ pos = 1
    /\ \E names \in SUBSET ExistingNames :
          /\ Cardinality(names) <= MaxExisting
          /\ fs = [n \in names |-> OldContent]
    /\ log = <<>>
    /\ DATEUTIL_AVAILABLE \in BOOLEAN
    /\ strftime_pads = FALSE
    /\ raw_date = None /\ dateutil_result = NoDateutil /\ iso_date = <<>> /\ warning = FALSE
    /\ pc = IF listing = <<>> THEN "done" ELSE "running"
    /\ IdleSlug /\ IdleStrip /\ IdlePath

\* The loop goes on to the next file, or ends after the last one.
Advance ==
    /\ pos' = pos + 1
    /\ pc' = IF pos + 1 > Len(listing) THEN "done" ELSE "running"

\* An exception leaves convert_files: the loop stops where it is.
Raise ==
    /\ pos' = pos
    /\ pc' = "raised"

\* One call of print; printed tells whether the console took the line (the
\* call raises where it did not).
Line(msg, f, base, path, existed, printed) ==
    [msg |-> msg, file |-> f.filename, base |-> base, path |-> path, existed |-> existed,
     printed |-> printed]

\* A file whose name does not end in .md is passed over.
IgnoreFile ==
    /\ pc = "running"
    /\ ~IsMarkdownName(listing[pos].filename)
    /\ Advance
    /\ UNCHANGED <<fs, log, listing, slugVars, dateVars, stripVars, pathVars>>

\* open() or read() raises: the failure is printed and the loop continues;
\* the print is in the handler, so where it raises convert_files raises.
ReadFails ==
    /\ pc = "running"
    /\ IsMarkdownName(listing[pos].filename)
    /\ \E printed \in BOOLEAN :
          /\ log' = Append(log, Line("read_failed", listing[pos], <<>>, <<>>, FALSE, printed))
          /\ IF printed THEN Advance ELSE Raise
    /\ UNCHANGED <<fs, listing, slugVars, dateVars, stripVars, pathVars>>

\* What convert_files derives from a file that it has read, before it looks
\* at html_posts: the metadata, the body without frontmatter, the base name;
\* nothing after the metadata where extract_frontmatter raises.
Derive(f, available, pads, console) ==
    LET Record(meta) ==
            IF meta.raised THEN [meta |-> meta, content_body |-> <<>>, base |-> <<>>]
            ELSE [meta |-> meta,
                  content_body |-> strip_frontmatter(f.content),
                  base |-> output_filename_base(meta)]
    IN  Record(extract_frontmatter(f.content, available, DateutilFor(f), pads, console))

\* Derive, tabulated over the files and the environment.
Derived ==
    [f \in InputFiles, available \in BOOLEAN, pads \in BOOLEAN, console \in BOOLEAN |->
        Derive(f, available, pads, console)]

\* What a step of the loop leaves: html_posts, the calls of print, and
\* whether an exception left convert_files.
Outcome(files, prints, raised) == [fs |-> files, log |-> prints, raised |-> raised]

\* The output path is chosen and the file written.  Opening the output may
\* raise (no file appears) and so may writing or closing it (the file holds
\* the first kept characters of the text); the print that reports the conversion is inside the try,
\* so where it raises the file is complete and the failure is reported; the
\* print that reports the failure is in the handler.
write_output(f, d, html_body, files, prints, write, kept, converted_printed, failure_printed) ==
    LET Put(path, text) ==
            [n \in DOMAIN files \cup {path} |-> IF n = path THEN text ELSE files[n]]
        Report(msg, path, printed) ==
            Line(msg, f, d.base, path, path \in DOMAIN files, printed)
        Failure(path, files2, prints2) ==
            Outcome(files2, Append(prints2, Report("write_failed", path, failure_printed)),
                    ~failure_printed)
        At(path, out) ==
            CASE write = "open_raises" -> Failure(path, files, prints)
              [] write = "write_raises" -> Failure(path, Put(path, Take(out, kept)), prints)
              [] write = "ok" /\ converted_printed ->
                    Outcome(Put(path, out), Append(prints, Report("converted", path, TRUE)), FALSE)
              [] write = "ok" /\ ~converted_printed ->
                    Failure(path, Put(path, out), Append(prints, Report("converted", path, FALSE)))
    IN  At(unique_output_path(DOMAIN files, d.base), output_content(d.meta, html_body))

\* The body is rendered; where the renderer raises the failure is printed
\* (in the handler) and the body is written as preformatted text.
render_output(f, d, files, prints, render_ok, render_printed, write, kept, converted_printed, failure_printed) ==
    LET Report(printed) == Append(prints, Line("render_failed", f, d.base, <<>>, FALSE, printed))
        Write(html_body, prints2) ==
            write_output(f, d, html_body, files, prints2, write, kept,
                         converted_printed, failure_printed)
    IN  IF ~render_ok /\ ~render_printed THEN Outcome(files, Report(FALSE), TRUE)
        ELSE Write(IF render_ok THEN markdown(d.content_body) ELSE preformatted(d.content_body),
                   IF render_ok THEN prints ELSE Report(TRUE))

\* A file that was read is converted: the metadata is extracted (the
\* warning of parse_date_to_iso is printed on the way, or raises), then
\* the body is rendered and the output written.
convert_file(f, d, files, prints, render_ok, render_printed, write, kept, converted_printed, failure_printed) ==
    LET Warning(printed) == Append(prints, Line("warning", f, <<>>, <<>>, FALSE, printed))
    IN  IF d.meta.raised THEN Outcome(files, Warning(FALSE), TRUE)
        ELSE render_output(f, d, files, IF d.meta.warned THEN Warning(TRUE) ELSE prints,
                           render_ok, render_printed, write, kept,
                           converted_printed, failure_printed)

\* The file is read and converted; the renderer, the output file and the
\* console each work or fail, each chosen where the code gets that far,
\* and a write that raises leaves any prefix of the text in the file.
Convert ==
    /\ pc = "running"
    /\ IsMarkdownName(listing[pos].filename)
    /\ \E d \in {Derived[listing[pos], DATEUTIL_AVAILABLE, strftime_pads, warning_printed] :
                    warning_printed \in BOOLEAN} :
       \E render_ok \in (IF d.meta.raised THEN {TRUE} ELSE BOOLEAN) :
       \E render_printed \in (IF render_ok THEN {TRUE} ELSE BOOLEAN) :
       \E write \in (IF d.meta.raised \/ ~render_printed THEN {"ok"}
                     ELSE {"ok", "open_raises", "write_raises"}) :
       \E converted_printed \in (IF d.meta.raised \/ ~render_printed \/ write # "ok"
                                 THEN {TRUE} ELSE BOOLEAN) :
       \E failure_printed \in (IF d.meta.raised \/ ~render_printed
                                  \/ (write = "ok" /\ converted_printed)
                               THEN {TRUE} ELSE BOOLEAN) :
       \E kept \in (IF write = "write_raises"
                    THEN 0..Len(output_content(d.meta,
                                               IF render_ok THEN markdown(d.content_body)
                                               ELSE preformatted(d.content_body)))
                    ELSE {0}) :
       \E r \in {convert_file(listing[pos], d, fs, log, render_ok, render_printed, write, kept,
                              converted_printed, failure_printed)} :
          /\ fs' = r.fs
          /\ log' = r.log
          /\ IF r.raised THEN Raise ELSE Advance
    /\ UNCHANGED <<listing, slugVars, dateVars, stripVars, pathVars>>

Next == IgnoreFile \/ ReadFails \/ Convert

Spec == Init /\ [][Next]_vars

\* The lines of the console that end the processing of a file.
IsWriteLine(e) == e.msg \in {"converted", "write_failed"}

\* No write replaces a file (C1): every path a step writes to, or fails to write
\* to, did not exist before the step, and every file that existed before the
\* step (from before the run or from earlier in it) is still there, unchanged.
C1_NoOverwrite ==
    [][/\ \A n \in DOMAIN fs : n \in DOMAIN fs' /\ fs'[n] = fs[n]
       /\ \A i \in (Len(log) + 1)..Len(log') :
             IsWriteLine(log'[i]) => (log'[i].path \notin DOMAIN fs /\ ~log'[i].existed)]_vars

\* Two posts of the run derived the same base name, which also existed
\* before the run; both were written, to different paths.
C1_Witness ==
    \E i, j \in DOMAIN log :
        /\ i < j
        /\ log[i].msg = "converted" /\ log[j].msg = "converted"
        /\ log[i].printed /\ log[j].printed
        /\ log[i].base = log[j].base
        /\ log[i].path # log[j].path
        /\ log[i].base \in DOMAIN fs /\ fs[log[i].base] = OldContent
        /\ fs[log[i].path] # fs[log[j].path]

MarkdownFiles == {i \in DOMAIN listing : IsMarkdownName(listing[i].filename)}
LinesWith(msg) == {i \in DOMAIN log : log[i].msg = msg}

\* A failure on one file never stops the batch (C2): no read, render or write
\* failure ends the run, the loop ends only after the last file, with a
\* read failure or a write printed for every .md file; and when exactly
\* one read failed and no write did, the run leaves N - 1 new files, N the
\* number of .md files, and one printed skip.
C2_BatchCompletes ==
    /\ pc = "raised" => log[Len(log)].msg \notin {"read_failed", "render_failed", "write_failed"}
    /\ pc = "running" => pos \in 1..Len(listing)
    /\ pc = "done" =>
          /\ pos = Len(listing) + 1
          /\ \A i \in MarkdownFiles :
                \E k \in DOMAIN log :
                    /\ log[k].file = listing[i].filename
                    /\ log[k].msg = "read_failed" \/ IsWriteLine(log[k])
          /\ (Cardinality(LinesWith("read_failed")) = 1 /\ LinesWith("write_failed") = {}) =>
                LET written == {log[k].path : k \in LinesWith("converted")}
                IN  /\ Cardinality(written) = Cardinality(MarkdownFiles) - 1
                    /\ Cardinality(LinesWith("converted")) = Cardinality(MarkdownFiles) - 1
                    /\ \A k \in LinesWith("converted") : log[k].path \in DOMAIN fs /\ ~log[k].existed

\* A post whose rendering fails is still written (C9): the report of the
\* failure is followed by the write of that post, and the file written
\* holds the frontmatter a successful rendering is written with, then the
\* text of the post without its frontmatter between <pre> and </pre>.
C9_RenderFallback ==
    \A i \in DOMAIN log :
    \A f \in {g \in InputFiles : g.filename = log[i].file} :
    \A d \in {Derived[f, DATEUTIL_AVAILABLE, strftime_pads, TRUE]} :
    \A head \in {frontmatter(d.meta)} :
        /\ log[i].msg = "render_failed" =>
              /\ i + 1 \in DOMAIN log
              /\ log[i + 1].file = log[i].file
              /\ IsWriteLine(log[i + 1])
              /\ log[i + 1].msg = "converted" =>
                    fs[log[i + 1].path] =
                        head \o <<"<","p","r","e",">">> \o d.content_body
                             \o <<"<","/","p","r","e",">">> \o <<"\n">>
        /\ (log[i].msg = "converted" /\ (i = 1 \/ log[i - 1].msg # "render_failed")) =>
              SubSeq(fs[log[i].path], 1, Len(head)) = head

====
